---- MODULE Spec2Model ----
(***************************************************************************)
(* Model of src/app.py: the two-row header flattening                      *)
(* (preprocess_multicolumn_header) and the query / exec / export flow of   *)
(* the Streamlit script.                                                   *)
(*                                                                         *)
(* Strings are sequences of tokens: "" is << >>, "nan" is <<"nan">>, the   *)
(* pandas sentinel "Unnamed: 0_level_0" is <<"Unnamed", ": 0_level_0">>,   *)
(* and f"{g}_{i}" is g \o <<"_">> \o i.  `"Unnamed" in s` is the presence  *)
(* of the token "Unnamed" anywhere in s.                                   *)
(***************************************************************************)
EXTENDS Integers, Sequences, FiniteSets, TLC

\* ---------------------------------------------------------------- bounds
MaxCols == 3    \* header columns drawn in InitHeader
MaxRows == 4    \* rows of the uploaded raw sheet (>= 2)
MaxSel  == 2    \* rows of the table a fragment binds to result_df

VARIABLES
    \* preprocess_multicolumn_header
    columns,        \* df.columns on entry: sequence of <<level0 cell, level1 cell>>
    new_columns,    \* new_columns list
    current_group,  \* current_group (None or str)
    final_groups,   \* value of the local final_group in each iteration so far
    idx,            \* number of columns the for loop has consumed
    hpc,            \* "loop" | "returned" | "off"
    df_columns,     \* df.columns after the assignment at the end
    \* script body
    pc,             \* position in the script
    df_raw,         \* pd.read_excel(header=None): row label k is df_raw[k+1]
    df_analysis,    \* index of pd.read_excel(header=[0,1])
    generated_code, \* generated_code
    gen_failed,     \* get_analysis_code took its except branch
    result_df,      \* local_vars['result_df']
    e,              \* exception caught by the inner except, or "none"
    final_export_df,\* final_export_df: sequence of [label, cells]
    download,       \* data handed to st.download_button (rows of cells)
    ui,             \* set of widgets rendered in this run
    shown_code      \* set of fragments rendered with st.code

hvars == <<columns, new_columns, current_group, final_groups, idx, hpc, df_columns>>
fvars == <<pc, df_raw, df_analysis, generated_code, gen_failed, result_df, e,
           final_export_df, download, ui, shown_code>>
vars  == <<hvars, fvars>>

\* ------------------------------------------------------------ header cells
\* A header cell is a Python value: a str, or the float NaN.
StrCell(s) == [t |-> "str", s |-> s]
NaNCell    == [t |-> "float", s |-> << >>]

\* str(col[k])
Str(c) == IF c.t = "float" THEN <<"nan">> ELSE c.s

\* None or a str, for current_group / final_group
None    == [isNone |-> TRUE,  s |-> << >>]
Some(s) == [isNone |-> FALSE, s |-> s]

\* Python truthiness of a None-or-str value
Truthy(v) == ~v.isNone /\ v.s # << >>

\* `"Unnamed" in label or label == "nan"`
AbsentLabel(label) ==
    (\E k \in 1..Len(label) : label[k] = "Unnamed") \/ label = <<"nan">>

\* new value of current_group after the group branch
NextCurrentGroup(cur, group) ==
    IF AbsentLabel(group) THEN cur ELSE Some(group)

\* final_group after the group branch
FinalGroupNoFill(cur, group) ==
    IF AbsentLabel(group) THEN None ELSE Some(group)
FinalGroup(cur, group) ==
    IF AbsentLabel(group) THEN cur ELSE Some(group)

\* final_item after the item branch
FinalItem(item) == IF AbsentLabel(item) THEN << >> ELSE item

\* the name appended to new_columns
ComposeTrailing(final_group, final_item) ==
    IF Truthy(final_group)
    THEN final_group.s \o <<"_">> \o final_item
    ELSE final_item
Compose(final_group, final_item) ==
    IF Truthy(final_group) /\ final_item # << >>
    THEN final_group.s \o <<"_">> \o final_item
    ELSE IF Truthy(final_group) THEN final_group.s
    ELSE final_item

\* ------------------------------------------------------ header input space
Sentinel0 == <<"Unnamed", ": 0_level_0">>
Sentinel1 == <<"Unnamed", ": 0_level_1">>

GroupCells == {StrCell(<<"A">>), StrCell(<<"B">>), StrCell(<< >>),
               StrCell(Sentinel0), NaNCell}
ItemCells  == {StrCell(<<"x">>), StrCell(<< >>), StrCell(Sentinel1), NaNCell}

HeaderCols == {<<g, i>> : g \in GroupCells, i \in ItemCells}

BoundedHeaders == UNION {[1..n -> HeaderCols] : n \in 0..MaxCols}

\* groups [A, absent, absent, B, absent], items [x, y, z, w, v]
ExampleHeader ==
    << <<StrCell(<<"A">>), StrCell(<<"x">>)>>,
       <<StrCell(Sentinel0), StrCell(<<"y">>)>>,
       <<NaNCell, StrCell(<<"z">>)>>,
       <<StrCell(<<"B">>), StrCell(<<"w">>)>>,
       <<StrCell(Sentinel0), StrCell(<<"v">>)>> >>
ExampleNames ==
    << <<"A", "_", "x">>, <<"A", "_", "y">>, <<"A", "_", "z">>,
       <<"B", "_", "w">>, <<"B", "_", "v">> >>

Headers == BoundedHeaders \cup {ExampleHeader}

\* ----------------------------------------------------------- flow values
\* Python values a fragment can leave in result_df
NoneVal  == [type |-> "None", index |-> << >>, ncols |-> 0]
OtherVal == [type |-> "other", index |-> << >>, ncols |-> 0]
DataFrame(index, ncols) == [type |-> "DataFrame", index |-> index, ncols |-> ncols]

\* A source text, by what exec does with it: whether it compiles, whether
\* running it raises, and what it leaves bound to result_df.
Code(text, syntax_ok, run_raises, binds) ==
    [text |-> text, syntax_ok |-> syntax_ok, run_raises |-> run_raises,
     binds |-> binds]
NoCode == Code("<unset>", FALSE, FALSE, NoneVal)

FlowOff ==
    /\ pc = "off" /\ df_raw = << >> /\ df_analysis = << >>
    /\ generated_code = NoCode /\ gen_failed = FALSE /\ result_df = NoneVal
    /\ e = "none" /\ final_export_df = << >> /\ download = << >>
    /\ ui = {} /\ shown_code = {}

HeaderOff ==
    /\ columns = << >> /\ new_columns = << >> /\ current_group = None
    /\ final_groups = << >> /\ idx = 0 /\ hpc = "off" /\ df_columns = << >>

\* ------------------------------------------- preprocess_multicolumn_header
InitHeader ==
    /\ columns \in Headers
    /\ new_columns = << >>
    /\ current_group = None
    /\ final_groups = << >>
    /\ idx = 0
    /\ hpc = "loop"
    /\ df_columns = << >>
    /\ FlowOff

\* one iteration of `for col in df.columns`
PreprocessStep ==
    /\ hpc = "loop"
    /\ idx < Len(columns)
    /\ LET col   == columns[idx + 1]
           group == Str(col[1])
           item  == Str(col[2])
           final_group == FinalGroup(current_group, group)
           final_item  == FinalItem(item)
       IN /\ current_group' = NextCurrentGroup(current_group, group)
          /\ final_groups' = Append(final_groups, final_group)
          /\ new_columns' = Append(new_columns, Compose(final_group, final_item))
    /\ idx' = idx + 1
    /\ UNCHANGED <<columns, hpc, df_columns, fvars>>

\* df.columns = new_columns; return df
PreprocessReturn ==
    /\ hpc = "loop"
    /\ idx = Len(columns)
    /\ df_columns' = new_columns
    /\ hpc' = "returned"
    /\ UNCHANGED <<columns, new_columns, current_group, final_groups, idx, fvars>>

NextHeader == PreprocessStep \/ PreprocessReturn

SpecHeader == InitHeader /\ [][NextHeader]_vars

\* ------------------------------------------------------- flow input space
\* a row of the sheet is a sequence of cells
RowValues == {<<1, 2>>, <<3, 4>>}

\* sheets with the two header rows and 0..MaxRows-2 data rows
RawTables == UNION {[1..n -> RowValues] : n \in 2..MaxRows}

\* row labels a result table may carry
Positions == (-3)..(MaxRows - 2)
IndexSeqs == UNION {[1..n -> Positions] : n \in 0..MaxSel}

Values == {NoneVal, OtherVal}
          \cup {DataFrame(ix, nc) : ix \in IndexSeqs, nc \in 0..1}

\* fragments the model call can return
Fragments ==
    {Code("fragment", TRUE, FALSE, v) : v \in Values}
    \cup {Code("fragment", FALSE, FALSE, NoneVal),
          Code("fragment", TRUE, TRUE, NoneVal)}

\* str(e) of the exceptions the try block of get_analysis_code can catch
FailureTexts == {"Connection error.", "timeout", ""}

\* str(e) as a source text: "Connection error." does not compile, "timeout"
\* compiles to a name lookup that raises NameError, "" compiles and does
\* nothing
FailureCode(msg) ==
    CASE msg = "Connection error." -> Code(msg, FALSE, FALSE, NoneVal)
      [] msg = "timeout"           -> Code(msg, TRUE, TRUE, NoneVal)
      [] msg = ""                  -> Code(msg, TRUE, FALSE, NoneVal)

\* ------------------------------------------------------------ script body
\* exec(generated_code, local_vars) raises
ExecRaisesSyntaxOnly(code) == ~code.syntax_ok
ExecRaises(code) == ~code.syntax_ok \/ code.run_raises

\* result_df.empty
IsEmptyNoColumns(df) == df.ncols = 0
IsEmpty(df) == Len(df.index) = 0 \/ df.ncols = 0

\* the if / elif / else over result_df
BranchOtherAsNone(v) ==
    IF v.type = "DataFrame"
    THEN IF ~IsEmpty(v) THEN "export" ELSE "no_matches"
    ELSE "visualization"
Branch(v) ==
    IF v.type # "None" /\ v.type = "DataFrame"
    THEN IF ~IsEmpty(v) THEN "export" ELSE "no_matches"
    ELSE IF v.type = "None" THEN "visualization"
    ELSE "info"

\* df_raw.iloc[[0, 1]]
HeaderRows(raw) == << [label |-> 0, cells |-> raw[1]],
                      [label |-> 1, cells |-> raw[2]] >>

\* result_df.index + 2
TargetIndicesOffByOne(index) == [i \in 1..Len(index) |-> index[i] + 1]
TargetIndices(index) == [i \in 1..Len(index) |-> index[i] + 2]

\* df_raw.loc[target_indices]: KeyError when a label is missing from the
\* RangeIndex of df_raw, else the rows in the order of the labels
RECURSIVE KeepPresent(_, _)
KeepPresent(raw, targets) ==
    IF targets = << >> THEN << >>
    ELSE LET t == Head(targets)
             rest == KeepPresent(raw, Tail(targets))
         IN IF t \in 0..(Len(raw) - 1)
            THEN <<[label |-> t, cells |-> raw[t + 1]]>> \o rest
            ELSE rest
LocTruncating(raw, targets) ==
    [raised |-> FALSE, rows |-> KeepPresent(raw, targets)]
Loc(raw, targets) ==
    IF \A i \in 1..Len(targets) : targets[i] \in 0..(Len(raw) - 1)
    THEN [raised |-> FALSE,
          rows |-> [i \in 1..Len(targets) |->
                      [label |-> targets[i], cells |-> raw[targets[i] + 1]]]]
    ELSE [raised |-> TRUE, rows |-> << >>]

\* to_excel(index=False, header=False): the cells of each row, in order
ToExcel(df) == [i \in 1..Len(df) |-> df[i].cells]

Init ==
    /\ pc = "load"
    /\ df_raw = << >> /\ df_analysis = << >>
    /\ generated_code = NoCode /\ gen_failed = FALSE /\ result_df = NoneVal
    /\ e = "none" /\ final_export_df = << >> /\ download = << >>
    /\ ui = {} /\ shown_code = {}
    /\ HeaderOff

\* the upload is read twice; the query widgets are drawn
Load ==
    /\ pc = "load"
    /\ \E raw \in RawTables, user_query \in {"", "q"}, run_btn \in BOOLEAN :
         /\ df_raw' = raw
         /\ df_analysis' = [i \in 1..(Len(raw) - 2) |-> i - 1]
         /\ pc' = IF run_btn /\ user_query # "" THEN "generate" ELSE "done"
    /\ ui' = ui \cup {"preview"}
    /\ UNCHANGED <<generated_code, gen_failed, result_df, e, final_export_df,
                   download, shown_code, hvars>>

\* get_analysis_code returns the stripped model output
GenerateOk ==
    /\ pc = "generate"
    /\ \E frag \in Fragments : generated_code' = frag
    /\ gen_failed' = FALSE
    /\ result_df' = NoneVal
    /\ pc' = "exec"
    /\ UNCHANGED <<df_raw, df_analysis, e, final_export_df, download, ui,
                   shown_code, hvars>>

\* get_analysis_code returns str(e)
GenerateFail ==
    /\ pc = "generate"
    /\ \E msg \in FailureTexts : generated_code' = FailureCode(msg)
    /\ gen_failed' = TRUE
    /\ result_df' = NoneVal
    /\ pc' = "exec"
    /\ UNCHANGED <<df_raw, df_analysis, e, final_export_df, download, ui,
                   shown_code, hvars>>

\* exec(generated_code, local_vars); result_df = local_vars.get('result_df')
Exec ==
    /\ pc = "exec"
    /\ IF ExecRaises(generated_code)
       THEN /\ e' = IF generated_code.syntax_ok THEN "NameError" ELSE "SyntaxError"
            /\ pc' = "except"
            /\ UNCHANGED result_df
       ELSE /\ result_df' = generated_code.binds
            /\ pc' = "dispatch"
            /\ UNCHANGED e
    /\ UNCHANGED <<df_raw, df_analysis, generated_code, gen_failed,
                   final_export_df, download, ui, shown_code, hvars>>

\* the branch taken on result_df and the message it renders
Dispatch ==
    /\ pc = "dispatch"
    /\ LET b == Branch(result_df)
       IN CASE b = "export" ->
                 /\ ui' = ui \cup {"search_complete", "dataframe"}
                 /\ pc' = "export"
            [] b = "no_matches" ->
                 /\ ui' = ui \cup {"no_matches"}
                 /\ pc' = "debug"
            [] b = "visualization" ->
                 /\ ui' = ui \cup {"visualization_complete"}
                 /\ pc' = "debug"
            [] b = "info" ->
                 /\ ui' = ui \cup {"cannot_display"}
                 /\ pc' = "debug"
    /\ UNCHANGED <<df_raw, df_analysis, generated_code, gen_failed, result_df,
                   e, final_export_df, download, shown_code, hvars>>

\* header_rows, target_indices, data_rows, final_export_df
ExportMapping ==
    /\ pc = "export"
    /\ LET header_rows    == HeaderRows(df_raw)
           target_indices == TargetIndices(result_df.index)
           data_rows      == Loc(df_raw, target_indices)
       IN IF data_rows.raised
          THEN /\ e' = "KeyError"
               /\ pc' = "except"
               /\ UNCHANGED final_export_df
          ELSE /\ final_export_df' = header_rows \o data_rows.rows
               /\ pc' = "write"
               /\ UNCHANGED e
    /\ UNCHANGED <<df_raw, df_analysis, generated_code, gen_failed, result_df,
                   download, ui, shown_code, hvars>>

\* the workbook is written to the buffer and the download button is drawn
WriteDownload ==
    /\ pc = "write"
    /\ download' = ToExcel(final_export_df)
    /\ ui' = ui \cup {"download_button"}
    /\ pc' = "debug"
    /\ UNCHANGED <<df_raw, df_analysis, generated_code, gen_failed, result_df,
                   e, final_export_df, shown_code, hvars>>

\* except Exception as e: st.error and the fragment in the detail expander
Except ==
    /\ pc = "except"
    /\ ui' = ui \cup {"error"}
    /\ shown_code' = shown_code \cup {<<"error_detail", generated_code>>}
    /\ pc' = "debug"
    /\ UNCHANGED <<df_raw, df_analysis, generated_code, gen_failed, result_df,
                   e, final_export_df, download, hvars>>

\* the debugging expander with the fragment and the prompt
DebugExpander ==
    /\ pc = "debug"
    /\ shown_code' = shown_code \cup {<<"debug", generated_code>>}
    /\ pc' = "done"
    /\ UNCHANGED <<df_raw, df_analysis, generated_code, gen_failed, result_df,
                   e, final_export_df, download, ui, hvars>>

Next ==
    \/ Load
    \/ GenerateOk
    \/ GenerateFail
    \/ Exec
    \/ Dispatch
    \/ ExportMapping
    \/ WriteDownload
    \/ Except
    \/ DebugExpander

Spec == Init /\ [][Next]_vars

\* ------------------------------------------------- header-flattening claims
GroupAt(i) == Str(columns[i][1])
ItemAt(i)  == Str(columns[i][2])

\* the label of an unlabeled header cell: the "Unnamed: ..." sentinel of the
\* two-row parse, or the text of a NaN cell
Placeholder(label) ==
    label = <<"nan">> \/ "Unnamed" \in {label[k] : k \in 1..Len(label)}

MaxOf(S) == CHOOSE m \in S : \A n \in S : n <= m

\* every group label is the placeholder or a real non-empty label
GroupsWellFormed ==
    \A i \in 1..Len(columns) : Placeholder(GroupAt(i)) \/ GroupAt(i) # << >>

\* the most recent present group label at or left of column i
RecentGroup(i) ==
    LET J == {j \in 1..i : ~Placeholder(GroupAt(j))}
    IN  IF J = {} THEN None ELSE Some(GroupAt(MaxOf(J)))

\* C2: when every group label is the placeholder or a real non-empty label,
\* the group used for a column is its own label when present, otherwise the
\* most recent present label to its left (none if there is none yet); and
\* groups [A, absent, absent, B, absent] with items [x, y, z, w, v] give
\* [A_x, A_y, A_z, B_w, B_v].
C2_ForwardFill ==
    /\ GroupsWellFormed =>
         \A i \in 1..Len(final_groups) : final_groups[i] = RecentGroup(i)
    /\ (columns = ExampleHeader /\ hpc = "returned") => df_columns = ExampleNames

C2_Witness ==
    /\ hpc = "returned"
    /\ columns = ExampleHeader
    /\ df_columns = ExampleNames
    /\ final_groups[3] = Some(<<"A">>)
    /\ final_groups[5] = Some(<<"B">>)

ItemPresent(i)    == ~Placeholder(ItemAt(i)) /\ ItemAt(i) # << >>
GroupAvailable(i) == ~final_groups[i].isNone /\ final_groups[i].s # << >>

ExpectedName(i) ==
    CASE GroupAvailable(i) /\ ItemPresent(i)   -> final_groups[i].s \o <<"_">> \o ItemAt(i)
      [] GroupAvailable(i) /\ ~ItemPresent(i)  -> final_groups[i].s
      [] ~GroupAvailable(i) /\ ItemPresent(i)  -> ItemAt(i)
      [] ~GroupAvailable(i) /\ ~ItemPresent(i) -> << >>

\* C3: one flat name per input column, in input order, and the function never
\* fails: group_item when the forward-filled group and the item are both
\* non-empty, the group alone when the item is absent, the item alone when no
\* group is available, the empty string when both are absent.
C3_OneNamePerColumn ==
    /\ hpc \in {"loop", "returned"} =>
         /\ Len(new_columns) = idx
         /\ Len(final_groups) = idx
         /\ \A i \in 1..idx : new_columns[i] = ExpectedName(i)
    /\ hpc = "loop" => ENABLED NextHeader
    /\ hpc = "returned" =>
         /\ Len(df_columns) = Len(columns)
         /\ \A i \in 1..Len(columns) : df_columns[i] = ExpectedName(i)

C3_Witness ==
    /\ hpc = "returned"
    /\ Len(columns) = 3
    /\ df_columns = << << >>, <<"A", "_", "x">>, <<"A">> >>

\* the most recent real (non-placeholder, non-empty) group label at or left
\* of column i
RecentRealGroup(i) ==
    LET J == {j \in 1..i : ~Placeholder(GroupAt(j)) /\ GroupAt(j) # << >>}
    IN  IF J = {} THEN None ELSE Some(GroupAt(MaxOf(J)))

\* C9: a group label that is literally the empty string is treated as absent:
\* the column inherits the most recent real group to its left and the
\* remembered current group is left unchanged.
C9_EmptyGroupIsAbsent ==
    (/\ hpc = "loop"
     /\ idx >= 2
     /\ GroupAt(idx) = << >>
     /\ ~RecentRealGroup(idx - 1).isNone)
    => /\ final_groups[idx] = RecentRealGroup(idx - 1)
       /\ current_group = RecentRealGroup(idx - 1)

\* ---------------------------------------------------------- flow claims
Selection == result_df.index

\* the non-empty-table branch was entered in this run
ExportAttempted ==
    /\ result_df.type = "DataFrame"
    /\ "search_complete" \in ui
    /\ pc \in {"write", "except", "debug", "done"}

\* every position lies in [0, rowCount(raw) - 2)
SelectionInRange ==
    \A i \in 1..Len(Selection) :
        0 <= Selection[i] /\ Selection[i] < Len(df_raw) - 2

\* C1: for a raw table with at least 2 rows and a selection S inside
\* [0, rowCount(raw)-2), the export step does not fail and yields 2 + |S|
\* rows: raw[0], raw[1], then raw[S[i]+2] in the order of S, cells untouched;
\* selecting every analysis position in original order reproduces the raw
\* table.
C1_ExportRows ==
    (ExportAttempted /\ Len(df_raw) >= 2 /\ SelectionInRange) =>
        /\ pc # "except" /\ e = "none"
        /\ Len(final_export_df) = 2 + Len(Selection)
        /\ final_export_df[1].cells = df_raw[1]
        /\ final_export_df[2].cells = df_raw[2]
        /\ \A i \in 1..Len(Selection) :
               final_export_df[2 + i].cells = df_raw[Selection[i] + 2 + 1]
        /\ Selection = df_analysis => ToExcel(final_export_df) = df_raw
        /\ pc \in {"debug", "done"} =>
               /\ "download_button" \in ui
               /\ download = ToExcel(final_export_df)

C1_Witness ==
    /\ pc = "done"
    /\ "download_button" \in ui
    /\ Len(df_raw) = 4
    /\ df_raw[3] # df_raw[4]
    /\ df_raw[2] # df_raw[3]
    /\ Selection = df_analysis
    /\ download = df_raw

\* the selection has a position p with p + 2 >= rowCount(raw)
HasPositionPastEnd ==
    \E i \in 1..Len(Selection) : Selection[i] + 2 >= Len(df_raw)

\* C4: when the selection has a position p with p + 2 >= rowCount(raw), the
\* export step raises, the failure is reported as an error, and no export
\* table is produced or offered for download.
C4_PastEndRaises ==
    (ExportAttempted /\ HasPositionPastEnd) =>
        /\ pc # "write"
        /\ e = "KeyError"
        /\ final_export_df = << >>
        /\ download = << >>
        /\ "download_button" \notin ui
        /\ pc \in {"debug", "done"} => "error" \in ui

C4_Witness ==
    /\ pc = "done"
    /\ ExportAttempted
    /\ HasPositionPastEnd
    /\ \E i \in 1..Len(Selection) :
           0 <= Selection[i] /\ Selection[i] + 2 < Len(df_raw)
    /\ "error" \in ui
    /\ "download_button" \notin ui

\* C5: when the fragment binds the result to a table with zero rows, the run
\* ends in the "no matches" state: the export mapping is never run, no export
\* is built and no download is offered.
C5_ZeroRowsNoExport ==
    (result_df.type = "DataFrame" /\ Len(result_df.index) = 0) =>
        /\ pc \in {"dispatch", "debug", "done"}
        /\ pc # "dispatch" => "no_matches" \in ui
        /\ ui \cap {"search_complete", "download_button", "error",
                    "visualization_complete", "cannot_display"} = {}
        /\ final_export_df = << >>
        /\ download = << >>
        /\ e = "none"

C5_Witness ==
    /\ pc = "done"
    /\ result_df.type = "DataFrame"
    /\ Len(result_df.index) = 0
    /\ result_df.ncols = 1
    /\ "no_matches" \in ui

\* C6: when the code-generation call fails the failure text is run in place
\* of code and always fails, so the run ends in the execution-error state and
\* never in "search complete", "no matches" or "visualization complete".
C6_GenerationFailureIsError ==
    (gen_failed /\ pc = "done") =>
        /\ "error" \in ui
        /\ ui \cap {"search_complete", "no_matches",
                    "visualization_complete"} = {}

\* the fragment does not compile, or raises when run
ExecFails(code) == ~code.syntax_ok \/ code.run_raises

\* C7: when executing the fragment or the export mapping raises, the run ends
\* with the error reported together with the fragment and no download button;
\* a download is offered only after the fragment ran, bound a non-empty table,
\* and every selected row was found in the raw table.
C7_ErrorsEndWithoutDownload ==
    /\ (pc = "done" /\ (e # "none" \/ (generated_code # NoCode /\
                                         ExecFails(generated_code)))) =>
          /\ "error" \in ui
          /\ <<"error_detail", generated_code>> \in shown_code
          /\ "download_button" \notin ui
          /\ download = << >>
    /\ "download_button" \in ui =>
          /\ e = "none"
          /\ ~ExecFails(generated_code)
          /\ result_df.type = "DataFrame"
          /\ Len(result_df.index) > 0 /\ result_df.ncols > 0
          /\ \A i \in 1..Len(Selection) :
                 Selection[i] + 2 \in 0..(Len(df_raw) - 1)
          /\ Len(download) = 2 + Len(Selection)

C7_Witness ==
    /\ pc = "done"
    /\ e = "NameError"
    /\ ~gen_failed
    /\ "error" \in ui
    /\ <<"error_detail", generated_code>> \in shown_code
    /\ "download_button" \notin ui

\* C8 as stated: a fragment that runs but leaves result_df bound to a value
\* that is neither a table nor absent ends the run in the execution-error
\* state, with the fragment shown.
C8_NonTableIsError ==
    (result_df.type = "other" /\ pc = "done") =>
        /\ "error" \in ui
        /\ <<"error_detail", generated_code>> \in shown_code

\* C8 amended: such a fragment ends the run in the informational "cannot
\* display the result" state: no error is reported, no success or "no
\* matches" message is shown, no export is built and no download is offered.
C8_NonTableIsInfo ==
    (result_df.type = "other" /\ pc \in {"debug", "done"}) =>
        /\ "cannot_display" \in ui
        /\ ui \cap {"error", "search_complete", "no_matches",
                    "visualization_complete", "download_button"} = {}
        /\ e = "none"
        /\ final_export_df = << >>
        /\ download = << >>
        /\ <<"error_detail", generated_code>> \notin shown_code

C8_Witness ==
    /\ pc = "done"
    /\ result_df.type = "other"
    /\ "cannot_display" \in ui
    /\ "error" \notin ui

\* C10: when the result table's positions include p = -1 or p = -2, the
\* export step fails with a reported error and never offers an export in
\* which a header row is repeated as a data row.
C10_NegativePositionRaises ==
    (/\ ExportAttempted
     /\ pc = "done"
     /\ \E i \in 1..Len(Selection) : Selection[i] \in {-1, -2}) =>
        /\ "error" \in ui
        /\ "download_button" \notin ui
        /\ download = << >>

====
